---- MODULE Spec2Model ----
(***************************************************************************)
(* Model of the GPA Calculator & RAG Chatbot backend: the FastAPI surface  *)
(* of main.py and the RAGChatbot engine of rag_chatbot.py.                 *)
(*                                                                         *)
(* Every endpoint of main.py is an `async def` that calls the engine       *)
(* synchronously (no await), so the single uvicorn event loop runs one     *)
(* handler at a time, from its first line to its return.  `running` is the *)
(* request the loop is executing; the other requests wait as "pending".    *)
(* External services (Groq LLM, Chroma, embeddings) either return or raise.*)
(***************************************************************************)
EXTENDS Integers, Sequences, FiniteSets, TLC

VARIABLES
    started,        \* the startup event has run (main.py:27-35)
    rag_chatbot,    \* main.py global: "None" or "RAGChatbot"
    vector_store,   \* self.vector_store: "None" or "Chroma"
    collection,     \* documents held by the Chroma collection, in insertion order
    qa_chain,       \* self.qa_chain: "None" or "chain" (the cached retrieval chain)
    conversations,  \* self.conversations: identifier -> sequence of turns
    uuidCount,      \* number of uuid4() tokens drawn so far
    running,        \* the request the event loop is executing, or NoSlot
    frames,         \* per client connection: the request, the handler's locals, the response
    admitted,       \* number of requests accepted so far (bounded by MaxRequests)
    indexed,        \* history: an index call with at least one document has returned 200
    count_raised,   \* history: _collection.count() has raised inside _update_qa_chain
    returned,       \* history: conversation tokens returned in 200 chat responses
    log,            \* history: per identifier, the chat calls that ran on it
    gpa             \* a call of the GPA computation: its input, locals and outcome

vars == <<started, rag_chatbot, vector_store, collection, qa_chain, conversations,
          uuidCount, running, frames, admitted, indexed, count_raised, returned, log,
          gpa>>

----------------------------------------------------------------------------
(* Bounds of the model *)

MaxRequests == 2
MaxDocs == 4
MaxCourses == 2
LiveRequests == 1

(* Program constants *)

K == 3
PreviewLen == 200

----------------------------------------------------------------------------
(* Text.  A string is kept run-length encoded: a sequence of <<symbol, n>>  *)
(* runs, n >= 1, adjacent runs having different symbols.  Slicing and       *)
(* concatenation are Python's, computed on that encoding.                   *)

Str(sym, n) == IF n <= 0 THEN <<>> ELSE << <<sym, n>> >>

RECURSIVE TextLen(_)
TextLen(t) == IF t = <<>> THEN 0 ELSE Head(t)[2] + TextLen(Tail(t))

Concat(a, b) ==
    IF a = <<>> THEN b
    ELSE IF b = <<>> THEN a
    ELSE IF a[Len(a)][1] = Head(b)[1]
         THEN SubSeq(a, 1, Len(a) - 1)
                  \o << <<Head(b)[1], a[Len(a)][2] + Head(b)[2]>> >>
                  \o Tail(b)
         ELSE a \o b

RECURSIVE Take(_, _)
Take(t, n) ==
    IF t = <<>> \/ n <= 0 THEN <<>>
    ELSE IF Head(t)[2] >= n THEN << <<Head(t)[1], n>> >>
    ELSE <<Head(t)>> \o Take(Tail(t), n - Head(t)[2])

StartsWith(t, p) == Take(t, TextLen(p)) = p

RECURSIVE CountSym(_, _)
CountSym(sym, t) ==
    IF t = <<>> THEN 0
    ELSE (IF Head(t)[1] = sym THEN Head(t)[2] ELSE 0) + CountSym(sym, Tail(t))

RECURSIVE Join(_, _)
Join(sep, texts) ==
    IF texts = <<>> THEN <<>>
    ELSE IF Len(texts) = 1 THEN Head(texts)
    ELSE Concat(Concat(Head(texts), sep), Join(sep, Tail(texts)))

----------------------------------------------------------------------------
(* Values *)

None == "<None>"                    \* Python's None, for identifiers
Absent == Str("<unbound>", 1)       \* a local or response field that holds no text
SlotOrder == <<"s1", "s2">>         \* client connections that can be open at once
Slots == {SlotOrder[i] : i \in DOMAIN SlotOrder}

\* uuid4 with a fault: one token, drawn once, is handed to every call
uuid4DrawnOnce(n) == "uuid-1"

\* uuid.uuid4(): the n-th token drawn; distinct draws give distinct tokens, and
\* no caller can name a token before it has been handed out.
UuidPool == <<"uuid-1", "uuid-2", "uuid-3", "uuid-4", "uuid-5", "uuid-6", "uuid-7", "uuid-8">>
uuid4(n) == UuidPool[n]

\* what clients ask: successive requests carry different messages, so that the
\* turns of one call can be told from those of the next
MessageOrder == <<Str("a", 1), Str("b", 1)>>
MessageOf(n) == MessageOrder[((n - 1) % Len(MessageOrder)) + 1]
DocA == Str("a", 200)               \* a document of exactly 200 characters
DocB == Str("b", 201)               \* a document of 201 characters
Batches == {<<>>, <<DocA>>, <<DocB>>, <<DocA, DocB>>}
PersistedCollections == {<<>>, <<DocB, DocA, DocB>>}    \* what ./chroma_db may hold at startup

\* identifiers a caller can send: absent, empty, one it invented, one it was given
CallerIds == {None, "", "c1"} \cup returned

\* metadata dictionaries, a dictionary being its set of key-value pairs
MetaX == {<<"source", "x">>}
\* calls of index_documents(documents, metadatas) made on the engine itself:
\* two documents, the first of them with a metadata entry
DirectCalls == {<< <<DocA, DocB>>, <<MetaX>> >>}

Kinds == {"chat", "index", "health", "history"}

Turn(role, content) == [role |-> role, content |-> content]

IdleFrame ==
    [pc |-> "idle", kind |-> "none",
     message |-> <<>>, conversation_id |-> None, documents |-> <<>>,
     metadatas |-> <<>>, cid |-> None, missing |-> FALSE, answer |-> Absent, sources |-> <<>>,
     context |-> <<>>, turns |-> <<>>, status |-> 0, available |-> FALSE,
     \* history fields, describing the call for the properties below
     mode |-> "none", ready |-> FALSE, fellback |-> FALSE, llm_raised |-> FALSE,
     raised |-> FALSE, overlapped |-> FALSE, after_index |-> FALSE,
     pre |-> <<>>, pre_returned |-> {}]

----------------------------------------------------------------------------
(* External services *)

\* ChatGroq.invoke(prompt) when it returns: the completion, a text determined
\* by the prompt it was given.
Completion(prompt) == Concat(Str("!", 1), prompt)

\* Embedding similarity of a stored text to the query: how much of the query's
\* vocabulary the text holds.
RECURSIVE Similarity(_, _)
Similarity(query, text) ==
    IF query = <<>> THEN 0
    ELSE CountSym(Head(query)[1], text) + Similarity(Tail(query), text)

\* Index of the most similar document among `cand` (earliest stored on a tie).
Best(query, coll, cand) ==
    CHOOSE i \in cand :
        \A j \in cand :
            \/ Similarity(query, coll[i].page_content) > Similarity(query, coll[j].page_content)
            \/ /\ Similarity(query, coll[i].page_content) = Similarity(query, coll[j].page_content)
               /\ i <= j

RECURSIVE TopK(_, _, _, _)
TopK(query, coll, cand, k) ==
    IF k = 0 \/ cand = {} THEN <<>>
    ELSE LET b == Best(query, coll, cand)
         IN  <<coll[b]>> \o TopK(query, coll, cand \ {b}, k - 1)

\* vector_store.as_retriever(search_kwargs={"k": 3}) applied to a query
Retriever(query) == TopK(query, collection, DOMAIN collection, K)

----------------------------------------------------------------------------
(* RAGChatbot: pure parts *)

\* UpdateQaChain with a fault: the chain is built without looking at the count
UpdateQaChainIgnoresCount(vs, coll, countRaises) ==
    IF vs = "None" THEN "None" ELSE "chain"

\* _update_qa_chain: the value it leaves in self.qa_chain.  `countRaises` is
\* whether vector_store._collection.count() raises.
UpdateQaChain(vs, coll, countRaises) ==
    IF vs = "None" THEN "None"
    ELSE IF countRaises THEN "None"
    ELSE IF Len(coll) = 0 THEN "None"
    ELSE "chain"

\* index_documents: the Document objects built from the texts; metadatas is
\* <<>> when absent (None and [] are both falsy at line 149).
DocObjects(documents, metadatas) ==
    [i \in 1..Len(documents) |->
        [page_content |-> documents[i],
         metadata |-> IF Len(metadatas) > 0 /\ i <= Len(metadatas)
                      THEN metadatas[i] ELSE {}]]

\* format_docs: "\n\n".join(doc.page_content for doc in docs)
FormatDocs(docs) == Join(Str("\n", 2), [i \in 1..Len(docs) |-> docs[i].page_content])

\* prompt_template filled in: instruction, context, question, closing line
Prompt(context, question) ==
    Concat(Concat(Concat(Concat(Str("Use-context:", 1), context),
                         Str("Question:", 1)), question),
           Str("Provide-answer:", 1))

\* doc.page_content[:200] + "..."
Preview(text) == Concat(Take(text, PreviewLen), Str(".", 3))

Sources(docs) == [i \in 1..Len(docs) |-> Preview(docs[i].page_content)]

\* conversations[key] = value (creating the key when it is new)
Put(map, key, value) ==
    [k \in DOMAIN map \cup {key} |-> IF k = key THEN value ELSE map[k]]

\* conversations.get(key, [])
Get(map, key) == IF key \in DOMAIN map THEN map[key] ELSE <<>>

----------------------------------------------------------------------------
(* Scheduling *)

\* LoopFree with a fault: handlers are handed to a thread pool, whatever is executing
LoopFreeThreadPool == TRUE

\* The event loop can start a handler: none is executing.  The endpoints are
\* coroutines that never await, so a started handler runs to its return.
LoopFree == running = {}

At(s, pc) == s \in running /\ frames[s].pc = pc
SetFrame(s, f) == frames' = [frames EXCEPT ![s] = f]

\* documents that index requests already accepted may still add
RECURSIVE InFlightDocsOf(_)
InFlightDocsOf(S) ==
    IF S = {} THEN 0
    ELSE LET s == CHOOSE x \in S : TRUE
         IN  (IF frames[s].kind \in {"index", "index_call"} /\ frames[s].pc \notin {"idle", "done"}
              THEN Len(frames[s].documents) ELSE 0) + InFlightDocsOf(S \ {s})

InFlightDocs == InFlightDocsOf(Slots)

----------------------------------------------------------------------------
(* GPA computation: gpa_calculator.py.  A grade is the sequence of its     *)
(* characters; grade points and point totals are in tenths, the gpa in     *)
(* hundredths; credits are whole numbers.                                  *)

\* GRADE_POINTS, in tenths of a point
GRADE_POINTS ==
    (<<"A", "+">> :> 40) @@ (<<"A">> :> 40) @@ (<<"A", "-">> :> 37) @@
    (<<"B", "+">> :> 33) @@ (<<"B">> :> 30) @@ (<<"B", "-">> :> 27) @@
    (<<"C", "+">> :> 23) @@ (<<"C">> :> 20) @@ (<<"C", "-">> :> 17) @@
    (<<"D", "+">> :> 13) @@ (<<"D">> :> 10) @@ (<<"D", "-">> :> 7) @@
    (<<"F">> :> 0)

\* str.upper() on the characters the inputs use
UpperChar(c) ==
    CASE c = "a" -> "A" [] c = "b" -> "B" [] c = "c" -> "C" [] c = "d" -> "D"
      [] c = "f" -> "F" [] c = "z" -> "Z" [] OTHER -> c
upper(text) == [i \in DOMAIN text |-> UpperChar(text[i])]

\* str.strip(): leading and trailing whitespace removed
Whitespace == {" ", "\t", "\n"}
RECURSIVE lstrip(_)
lstrip(text) ==
    IF text # <<>> /\ Head(text) \in Whitespace THEN lstrip(Tail(text)) ELSE text
RECURSIVE rstrip(_)
rstrip(text) ==
    IF text # <<>> /\ text[Len(text)] \in Whitespace
    THEN rstrip(SubSeq(text, 1, Len(text) - 1)) ELSE text
strip(text) == rstrip(lstrip(text))

\* get_grade_points with a fault: a symbol outside the scale counts as no points
get_grade_pointsLenient(grade) ==
    LET grade_upper == strip(upper(grade))
    IN  IF grade_upper \notin DOMAIN GRADE_POINTS
        THEN [raised |-> FALSE, value |-> 0]
        ELSE [raised |-> FALSE, value |-> GRADE_POINTS[grade_upper]]

\* get_grade_points: the points of a grade, or ValueError
get_grade_points(grade) ==
    LET grade_upper == strip(upper(grade))
    IN  IF grade_upper \notin DOMAIN GRADE_POINTS
        THEN [raised |-> TRUE, value |-> 0]
        ELSE [raised |-> FALSE, value |-> GRADE_POINTS[grade_upper]]

\* round(n / d, 0) for d > 0, ties to the even neighbour as Python rounds
RoundHalfEven(n, d) ==
    LET q == n \div d
        r == n % d
    IN  IF 2 * r < d THEN q
        ELSE IF 2 * r > d THEN q + 1
        ELSE IF q % 2 = 0 THEN q ELSE q + 1

\* the dictionary calculate_gpa returns (lines 78-84)
GpaResult(total_points, total_credits) ==
    [gpa |-> RoundHalfEven(10 * total_points, total_credits),
     total_credits |-> total_credits,
     total_points |-> total_points]

\* inputs: grades in and outside the scale, in several spellings; credits
\* that pass and that fail the request validation
GpaGrades == {<<"A">>, <<"b", "+">>, <<" ", "c", "-", " ">>, <<"F">>,
              <<"Z">>, <<"a", " ", "+">>}
GpaCredits == {0, 1, 3}
GpaCourses == [credits : GpaCredits, grade : GpaGrades]
CourseLists == UNION {[1..n -> GpaCourses] : n \in 0..MaxCourses}

IdleGpa ==
    [pc |-> "idle", level |-> "none", request |-> <<>>, courses |-> <<>>, i |-> 0,
     total_points |-> 0, total_credits |-> 0, status |-> 0, result |-> <<>>,
     error |-> "none"]


----------------------------------------------------------------------------
(* Initial state: the module is imported, the startup event has not run *)

Init ==
    /\ started = FALSE
    /\ rag_chatbot = "None"
    /\ vector_store = "None"
    /\ collection = <<>>
    /\ qa_chain = "None"
    /\ conversations = <<>>
    /\ uuidCount = 0
    /\ running = {}
    /\ frames = [s \in Slots |-> IdleFrame]
    /\ admitted = 0
    /\ indexed = FALSE
    /\ count_raised = FALSE
    /\ returned = {}
    /\ log = <<>>
    /\ gpa = IdleGpa

\* startup_event: RAGChatbot() either raises (no GROQ_API_KEY, no langchain-groq,
\* the embedding model or the client cannot be built) and the global stays
\* None, or builds the engine; a Chroma that cannot be opened leaves
\* vector_store None.
StartupFails ==
    /\ ~started
    /\ started' = TRUE
    /\ UNCHANGED <<gpa, rag_chatbot, vector_store, collection, qa_chain, conversations,
                   uuidCount, running, frames, admitted, indexed, count_raised, returned, log>>

StartupOk ==
    /\ ~started
    /\ started' = TRUE
    /\ rag_chatbot' = "RAGChatbot"
    /\ \E chromaOk \in BOOLEAN, persisted \in PersistedCollections, countRaises \in BOOLEAN :
          /\ vector_store' = IF chromaOk THEN "Chroma" ELSE "None"
          /\ collection' = IF chromaOk THEN DocObjects(persisted, <<>>) ELSE <<>>
          /\ qa_chain' = UpdateQaChain(vector_store', collection', countRaises)
          /\ count_raised' = (chromaOk /\ countRaises)
    /\ conversations' = <<>>
    /\ UNCHANGED <<gpa, uuidCount, running, frames, admitted, indexed, returned, log>>

----------------------------------------------------------------------------
(* Clients *)

\* A connection is free when no request is waiting or executing on it.
IsFree(s) == frames[s].pc \in {"idle", "done"}

\* A client sends a request; it is carried by the first free connection.
Arrive(s) ==
    /\ started
    /\ \E i \in DOMAIN SlotOrder :
          /\ SlotOrder[i] = s
          /\ IsFree(s)
          /\ \A j \in 1..(i - 1) : ~IsFree(SlotOrder[j])
    /\ admitted < MaxRequests
    /\ admitted' = admitted + 1
    /\ \E kind \in Kinds :
          \/ /\ kind = "chat"
             /\ \E id \in CallerIds :
                   SetFrame(s, [IdleFrame EXCEPT !.pc = "pending", !.kind = kind,
                                                 !.message = MessageOf(admitted'),
                                                 !.conversation_id = id])
          \/ /\ kind = "index"
             /\ \E docs \in Batches :
                   /\ Len(collection) + InFlightDocs + Len(docs) <= MaxDocs
                   /\ SetFrame(s, [IdleFrame EXCEPT !.pc = "pending", !.kind = kind,
                                                    !.documents = docs])
          \/ /\ kind = "health"
             /\ SetFrame(s, [IdleFrame EXCEPT !.pc = "pending", !.kind = kind])
          \/ /\ kind = "history"
             /\ rag_chatbot # "None"
             /\ \E id \in CallerIds \ {None} :
                   SetFrame(s, [IdleFrame EXCEPT !.pc = "pending", !.kind = kind,
                                                 !.conversation_id = id])
    /\ UNCHANGED <<gpa, started, rag_chatbot, vector_store, collection, qa_chain,
                   conversations, uuidCount, running, indexed, count_raised, returned, log>>

----------------------------------------------------------------------------
(* POST /api/chat: chat_endpoint and RAGChatbot.chat *)

\* The response of a handler, left on the connection; the locals are gone.
Respond(f, status) ==
    [IdleFrame EXCEPT !.pc = "done", !.kind = f.kind, !.message = f.message,
                      !.conversation_id = f.conversation_id, !.documents = f.documents,
                      !.metadatas = f.metadatas, !.status = status,
                      !.mode = f.mode, !.ready = f.ready, !.fellback = f.fellback,
                      !.llm_raised = f.llm_raised, !.raised = f.raised,
                      !.overlapped = f.overlapped, !.after_index = f.after_index]

\* another chat request on the same identifier is waiting while this one starts
Overlaps(s, t) ==
    /\ t # s
    /\ frames[t].kind = "chat"
    /\ frames[t].pc = "pending"
    /\ frames[t].conversation_id = frames[s].conversation_id

\* ChatEndpoint with a fault: the check for a missing engine is left out
ChatEndpointUnguarded(s) ==
    /\ frames[s].pc = "pending"
    /\ frames[s].kind = "chat"
    /\ running = {}
    /\ running' = running \cup {s}
    /\ SetFrame(s, [frames[s] EXCEPT !.pc = "chat_resolve",
                                     !.pre = conversations,
                                     !.pre_returned = returned,
                                     !.after_index = indexed])
    /\ UNCHANGED <<gpa, started, rag_chatbot, vector_store, collection, qa_chain,
                   conversations, uuidCount, admitted, indexed, count_raised, returned, log>>

\* chat_endpoint, lines 97-101: no engine, 503; otherwise the call of line 104 starts
ChatEndpoint(s) ==
    /\ frames[s].pc = "pending"
    /\ frames[s].kind = "chat"
    /\ LoopFree
    /\ IF rag_chatbot = "None"
       THEN /\ SetFrame(s, Respond(frames[s], 503))
            /\ UNCHANGED running
       ELSE /\ running' = running \cup {s}
            /\ frames' = [t \in Slots |->
                 IF t = s
                 THEN [frames[s] EXCEPT !.pc = "chat_resolve",
                                        !.pre = conversations,
                                        !.pre_returned = returned,
                                        !.after_index = indexed,
                                        !.overlapped = \/ frames[s].overlapped
                                                       \/ \E u \in Slots : Overlaps(s, u)]
                 ELSE IF Overlaps(s, t)
                 THEN [frames[t] EXCEPT !.overlapped = TRUE]
                 ELSE frames[t]]
    /\ UNCHANGED <<gpa, started, rag_chatbot, vector_store, collection, qa_chain,
                   conversations, uuidCount, admitted, indexed, count_raised, returned, log>>

\* ChatResolve with a fault: an identifier that is not yet known is replaced too
ChatResolveUnknownGetsToken(s) ==
    /\ At(s, "chat_resolve")
    /\ IF \/ frames[s].conversation_id \in {None, ""}
          \/ frames[s].conversation_id \notin DOMAIN conversations
       THEN /\ uuidCount' = uuidCount + 1
            /\ SetFrame(s, [frames[s] EXCEPT !.pc = "chat_check",
                                             !.cid = uuid4(uuidCount + 1)])
       ELSE /\ uuidCount' = uuidCount
            /\ SetFrame(s, [frames[s] EXCEPT !.pc = "chat_check",
                                             !.cid = frames[s].conversation_id])
    /\ UNCHANGED <<gpa, started, rag_chatbot, vector_store, collection, qa_chain,
                   conversations, running, admitted, indexed, count_raised, returned, log>>

\* chat, lines 174-175: an absent or empty identifier is replaced by a uuid4 token
ChatResolve(s) ==
    /\ At(s, "chat_resolve")
    /\ IF frames[s].conversation_id \in {None, ""}
       THEN /\ uuidCount' = uuidCount + 1
            /\ SetFrame(s, [frames[s] EXCEPT !.pc = "chat_check",
                                             !.cid = uuid4(uuidCount + 1)])
       ELSE /\ uuidCount' = uuidCount
            /\ SetFrame(s, [frames[s] EXCEPT !.pc = "chat_check",
                                             !.cid = frames[s].conversation_id])
    /\ UNCHANGED <<gpa, started, rag_chatbot, vector_store, collection, qa_chain,
                   conversations, running, admitted, indexed, count_raised, returned, log>>

\* chat, line 178: conversation_id not in self.conversations
ChatCheck(s) ==
    /\ At(s, "chat_check")
    /\ SetFrame(s, [frames[s] EXCEPT !.pc = "chat_create",
                                     !.missing = frames[s].cid \notin DOMAIN conversations])
    /\ UNCHANGED <<gpa, started, rag_chatbot, vector_store, collection, qa_chain,
                   conversations, uuidCount, running, admitted, indexed, count_raised, returned, log>>

\* ChatCreate with a fault: the conversation is reset on every call
ChatCreateAlways(s) ==
    /\ At(s, "chat_create")
    /\ conversations' = Put(conversations, frames[s].cid, <<>>)
    /\ SetFrame(s, [frames[s] EXCEPT !.pc = "chat_append_user"])
    /\ UNCHANGED <<gpa, started, rag_chatbot, vector_store, collection, qa_chain,
                   uuidCount, running, admitted, indexed, count_raised, returned, log>>

\* chat, line 179: self.conversations[conversation_id] = []
ChatCreate(s) ==
    /\ At(s, "chat_create")
    /\ conversations' = IF frames[s].missing
                        THEN Put(conversations, frames[s].cid, <<>>)
                        ELSE conversations
    /\ SetFrame(s, [frames[s] EXCEPT !.pc = "chat_append_user"])
    /\ UNCHANGED <<gpa, started, rag_chatbot, vector_store, collection, qa_chain,
                   uuidCount, running, admitted, indexed, count_raised, returned, log>>

\* ChatAppendUser with a fault: every conversation holds the same list object,
\* so the turn shows up under every identifier.
ChatAppendUserShared(s) ==
    /\ At(s, "chat_append_user")
    /\ conversations' = [k \in DOMAIN conversations |->
                            Append(conversations[k], Turn("user", frames[s].message))]
    /\ SetFrame(s, [frames[s] EXCEPT !.pc = "chat_select"])
    /\ UNCHANGED <<gpa, started, rag_chatbot, vector_store, collection, qa_chain,
                   uuidCount, running, admitted, indexed, count_raised, returned, log>>


\* chat, line 182: the user turn is appended
ChatAppendUser(s) ==
    /\ At(s, "chat_append_user")
    /\ conversations' = [conversations EXCEPT ![frames[s].cid] =
                            Append(@, Turn("user", frames[s].message))]
    /\ SetFrame(s, [frames[s] EXCEPT !.pc = "chat_select"])
    /\ UNCHANGED <<gpa, started, rag_chatbot, vector_store, collection, qa_chain,
                   uuidCount, running, admitted, indexed, count_raised, returned, log>>

\* chat, line 185: if self.qa_chain is None
ChatSelect(s) ==
    /\ At(s, "chat_select")
    /\ SetFrame(s, [frames[s] EXCEPT
            !.pc = IF qa_chain = "None" THEN "chat_direct" ELSE "chat_chain",
            !.mode = IF qa_chain = "None" THEN "DIRECT" ELSE "GROUNDED",
            !.ready = vector_store # "None" /\ Len(collection) >= 1])
    /\ UNCHANGED <<gpa, started, rag_chatbot, vector_store, collection, qa_chain,
                   conversations, uuidCount, running, admitted, indexed, count_raised, returned, log>>

\* chat, lines 187-189: self.llm.invoke(message) returns or raises
ChatDirect(s) ==
    /\ At(s, "chat_direct")
    /\ \/ SetFrame(s, [frames[s] EXCEPT !.pc = "chat_append_assistant",
                                        !.answer = Completion(frames[s].message),
                                        !.sources = <<>>])
       \/ SetFrame(s, [frames[s] EXCEPT !.pc = "chat_raise", !.llm_raised = TRUE,
                                        !.raised = TRUE])
    /\ UNCHANGED <<gpa, started, rag_chatbot, vector_store, collection, qa_chain,
                   conversations, uuidCount, running, admitted, indexed, count_raised, returned, log>>

\* chat, line 193: self.qa_chain.invoke(message): retrieve, format, prompt,
\* generate; the retriever or the LLM may raise
ChatChain(s) ==
    /\ At(s, "chat_chain")
    /\ \/ SetFrame(s, [frames[s] EXCEPT !.pc = "chat_fallback", !.raised = TRUE])
       \/ LET docs == Retriever(frames[s].message)
          IN  SetFrame(s, [frames[s] EXCEPT
                  !.pc = "chat_sources",
                  !.context = docs,
                  !.answer = Completion(Prompt(FormatDocs(docs), frames[s].message))])
    /\ UNCHANGED <<gpa, started, rag_chatbot, vector_store, collection, qa_chain,
                   conversations, uuidCount, running, admitted, indexed, count_raised, returned, log>>

\* chat, lines 195-200: the documents are retrieved a second time for the sources
ChatSources(s) ==
    /\ At(s, "chat_sources")
    /\ \/ SetFrame(s, [frames[s] EXCEPT
              !.pc = "chat_append_assistant",
              !.sources = IF vector_store # "None"
                          THEN Sources(Retriever(frames[s].message))
                          ELSE <<>>])
       \/ /\ vector_store # "None"
          /\ SetFrame(s, [frames[s] EXCEPT !.pc = "chat_fallback", !.raised = TRUE])
    /\ UNCHANGED <<gpa, started, rag_chatbot, vector_store, collection, qa_chain,
                   conversations, uuidCount, running, admitted, indexed, count_raised, returned, log>>

\* ChatFallback with a fault: the handler re-raises instead of calling the LLM
ChatFallbackReraises(s) ==
    /\ At(s, "chat_fallback")
    /\ SetFrame(s, [frames[s] EXCEPT !.pc = "chat_raise"])
    /\ UNCHANGED <<gpa, started, rag_chatbot, vector_store, collection, qa_chain,
                   conversations, uuidCount, running, admitted, indexed, count_raised, returned, log>>

\* ChatFallback with a fault: the handler tries the chain again
ChatFallbackRetriesChain(s) ==
    /\ At(s, "chat_fallback")
    /\ SetFrame(s, [frames[s] EXCEPT !.pc = "chat_chain", !.fellback = TRUE])
    /\ UNCHANGED <<gpa, started, rag_chatbot, vector_store, collection, qa_chain,
                   conversations, uuidCount, running, admitted, indexed, count_raised, returned, log>>


\* chat, lines 201-205: except Exception: the message goes to the LLM directly
ChatFallback(s) ==
    /\ At(s, "chat_fallback")
    /\ \/ SetFrame(s, [frames[s] EXCEPT !.pc = "chat_append_assistant",
                                        !.fellback = TRUE,
                                        !.answer = Completion(frames[s].message),
                                        !.sources = <<>>])
       \/ SetFrame(s, [frames[s] EXCEPT !.pc = "chat_raise", !.fellback = TRUE,
                                        !.llm_raised = TRUE])
    /\ UNCHANGED <<gpa, started, rag_chatbot, vector_store, collection, qa_chain,
                   conversations, uuidCount, running, admitted, indexed, count_raised, returned, log>>

\* ChatAppendAssistant with a fault: the answer is stored over the last turn
ChatAppendAssistantOverLast(s) ==
    /\ At(s, "chat_append_assistant")
    /\ conversations' = [conversations EXCEPT ![frames[s].cid] =
                            [@ EXCEPT ![Len(@)] = Turn("assistant", frames[s].answer)]]
    /\ SetFrame(s, [frames[s] EXCEPT !.pc = "chat_return"])
    /\ UNCHANGED <<gpa, started, rag_chatbot, vector_store, collection, qa_chain,
                   uuidCount, running, admitted, indexed, count_raised, returned, log>>

\* chat, line 208: the assistant turn is appended
ChatAppendAssistant(s) ==
    /\ At(s, "chat_append_assistant")
    /\ conversations' = [conversations EXCEPT ![frames[s].cid] =
                            Append(@, Turn("assistant", frames[s].answer))]
    /\ SetFrame(s, [frames[s] EXCEPT !.pc = "chat_return"])
    /\ UNCHANGED <<gpa, started, rag_chatbot, vector_store, collection, qa_chain,
                   uuidCount, running, admitted, indexed, count_raised, returned, log>>

LogCall(f, ok) ==
    Put(log, f.cid,
        Append(Get(log, f.cid),
               [message |-> f.message, answer |-> f.answer, ok |-> ok,
                overlapped |-> f.overlapped]))

\* chat, lines 210-214, and chat_endpoint, lines 105-109: the 200 response
ChatReturn(s) ==
    /\ At(s, "chat_return")
    /\ running' = running \ {s}
    /\ SetFrame(s, [Respond(frames[s], 200) EXCEPT !.answer = frames[s].answer,
                                                   !.cid = frames[s].cid,
                                                   !.sources = frames[s].sources])
    /\ returned' = returned \cup {frames[s].cid}
    /\ log' = LogCall(frames[s], TRUE)
    /\ UNCHANGED <<gpa, started, rag_chatbot, vector_store, collection, qa_chain,
                   conversations, uuidCount, admitted, indexed, count_raised>>

\* ChatRaise with a fault: the endpoint swallows the exception and answers 200
ChatRaiseSwallowed(s) ==
    /\ At(s, "chat_raise")
    /\ running' = running \ {s}
    /\ SetFrame(s, [Respond(frames[s], 200) EXCEPT !.answer = <<>>,
                                                   !.cid = frames[s].cid])
    /\ log' = LogCall(frames[s], FALSE)
    /\ UNCHANGED <<gpa, started, rag_chatbot, vector_store, collection, qa_chain,
                   conversations, uuidCount, admitted, indexed, count_raised, returned>>

\* ChatRaise with a fault: the failed call takes its user turn back
ChatRaiseRollsBack(s) ==
    /\ At(s, "chat_raise")
    /\ running' = running \ {s}
    /\ SetFrame(s, Respond(frames[s], 500))
    /\ log' = LogCall(frames[s], FALSE)
    /\ conversations' = [conversations EXCEPT ![frames[s].cid] =
                            SubSeq(@, 1, Len(@) - 1)]
    /\ UNCHANGED <<gpa, started, rag_chatbot, vector_store, collection, qa_chain,
                   uuidCount, admitted, indexed, count_raised, returned>>


\* chat_endpoint, lines 110-111: an exception out of chat becomes a 500
ChatRaise(s) ==
    /\ At(s, "chat_raise")
    /\ running' = running \ {s}
    /\ SetFrame(s, Respond(frames[s], 500))
    /\ log' = LogCall(frames[s], FALSE)
    /\ UNCHANGED <<gpa, started, rag_chatbot, vector_store, collection, qa_chain,
                   conversations, uuidCount, admitted, indexed, count_raised, returned>>

----------------------------------------------------------------------------
(* POST /api/chat/index-documents: index_documents (main.py) and            *)
(* RAGChatbot.index_documents                                               *)

\* index_documents (main.py), lines 122-126
IndexEndpoint(s) ==
    /\ frames[s].pc = "pending"
    /\ frames[s].kind = "index"
    /\ LoopFree
    /\ IF rag_chatbot = "None"
       THEN /\ SetFrame(s, Respond(frames[s], 503))
            /\ UNCHANGED running
       ELSE /\ running' = running \cup {s}
            /\ SetFrame(s, [frames[s] EXCEPT !.pc = "index_check"])
    /\ UNCHANGED <<gpa, started, rag_chatbot, vector_store, collection, qa_chain,
                   conversations, uuidCount, admitted, indexed, count_raised, returned, log>>

\* IndexCheck with a fault: the test for a missing store is left out
IndexCheckNoStoreTest(s) ==
    /\ At(s, "index_check")
    /\ SetFrame(s, [frames[s] EXCEPT !.pc =
            IF Len(frames[s].documents) = 0 THEN "index_return" ELSE "index_add"])
    /\ UNCHANGED <<gpa, started, rag_chatbot, vector_store, collection, qa_chain,
                   conversations, uuidCount, running, admitted, indexed, count_raised, returned, log>>

\* IndexCheck with a fault: the store is tested before the empty input
IndexCheckStoreFirst(s) ==
    /\ At(s, "index_check")
    /\ SetFrame(s, [frames[s] EXCEPT !.pc =
            IF vector_store = "None" THEN "index_value_error"
            ELSE IF Len(frames[s].documents) = 0 THEN "index_return"
            ELSE "index_add"])
    /\ UNCHANGED <<gpa, started, rag_chatbot, vector_store, collection, qa_chain,
                   conversations, uuidCount, running, admitted, indexed, count_raised, returned, log>>

\* RAGChatbot.index_documents, lines 140-144: empty input returns, a missing
\* store raises ValueError
IndexCheck(s) ==
    /\ At(s, "index_check")
    /\ SetFrame(s, [frames[s] EXCEPT !.pc =
            IF Len(frames[s].documents) = 0 THEN "index_return"
            ELSE IF vector_store = "None" THEN "index_value_error"
            ELSE "index_add"])
    /\ UNCHANGED <<gpa, started, rag_chatbot, vector_store, collection, qa_chain,
                   conversations, uuidCount, running, admitted, indexed, count_raised, returned, log>>

\* IndexAdd with a fault: the text is the key of a document, so a text that is
\* already stored is not stored again
IndexAddUpsert(s) ==
    /\ At(s, "index_add")
    /\ \/ /\ collection' = collection \o
                SelectSeq(DocObjects(frames[s].documents, frames[s].metadatas),
                          LAMBDA d : \A i \in DOMAIN collection :
                                        collection[i].page_content # d.page_content)
          /\ SetFrame(s, [frames[s] EXCEPT !.pc = "index_persist"])
       \/ /\ collection' = collection
          /\ \E pc \in {"index_value_error", "index_error"} :
                SetFrame(s, [frames[s] EXCEPT !.pc = pc, !.raised = TRUE])
    /\ UNCHANGED <<gpa, started, rag_chatbot, vector_store, qa_chain,
                   conversations, uuidCount, running, admitted, indexed, count_raised, returned, log>>


\* lines 146-153: the Document objects are built and written in one batch;
\* add_documents (embedding, Chroma) may raise, a ValueError or another error
IndexAdd(s) ==
    /\ At(s, "index_add")
    /\ \/ /\ collection' = collection \o DocObjects(frames[s].documents, frames[s].metadatas)
          /\ SetFrame(s, [frames[s] EXCEPT !.pc = "index_persist"])
       \/ /\ collection' = collection
          /\ \E pc \in {"index_value_error", "index_error"} :
                SetFrame(s, [frames[s] EXCEPT !.pc = pc, !.raised = TRUE])
    /\ UNCHANGED <<gpa, started, rag_chatbot, vector_store, qa_chain,
                   conversations, uuidCount, running, admitted, indexed, count_raised, returned, log>>

\* line 154: self.vector_store.persist() returns, or raises (langchain_chroma's
\* Chroma has no persist method; the community one may fail on the disk)
IndexPersist(s) ==
    /\ At(s, "index_persist")
    /\ \/ SetFrame(s, [frames[s] EXCEPT !.pc = "index_update"])
       \/ SetFrame(s, [frames[s] EXCEPT !.pc = "index_error", !.raised = TRUE])
    /\ UNCHANGED <<gpa, started, rag_chatbot, vector_store, collection, qa_chain,
                   conversations, uuidCount, running, admitted, indexed, count_raised, returned, log>>

\* line 157: self._update_qa_chain()
IndexUpdateChain(s) ==
    /\ At(s, "index_update")
    /\ \E countRaises \in BOOLEAN :
          /\ qa_chain' = UpdateQaChain(vector_store, collection, countRaises)
          /\ count_raised' = (count_raised \/ countRaises)
    /\ SetFrame(s, [frames[s] EXCEPT !.pc = "index_return"])
    /\ UNCHANGED <<gpa, started, rag_chatbot, vector_store, collection,
                   conversations, uuidCount, running, admitted, indexed, returned, log>>

\* index_documents (main.py), line 130
IndexReturn(s) ==
    /\ At(s, "index_return")
    /\ frames[s].kind = "index"
    /\ running' = running \ {s}
    /\ indexed' = (indexed \/ Len(frames[s].documents) >= 1)
    /\ SetFrame(s, Respond(frames[s], 200))
    /\ UNCHANGED <<gpa, started, rag_chatbot, vector_store, collection, qa_chain,
                   conversations, uuidCount, admitted, count_raised, returned, log>>

\* index_documents (main.py), lines 131-136: ValueError becomes 503
IndexValueError(s) ==
    /\ At(s, "index_value_error")
    /\ frames[s].kind = "index"
    /\ running' = running \ {s}
    /\ SetFrame(s, Respond(frames[s], 503))
    /\ UNCHANGED <<gpa, started, rag_chatbot, vector_store, collection, qa_chain,
                   conversations, uuidCount, admitted, indexed, count_raised, returned, log>>

\* index_documents (main.py), lines 137-138: any other exception becomes 500
IndexError(s) ==
    /\ At(s, "index_error")
    /\ frames[s].kind = "index"
    /\ running' = running \ {s}
    /\ SetFrame(s, Respond(frames[s], 500))
    /\ UNCHANGED <<gpa, started, rag_chatbot, vector_store, collection, qa_chain,
                   conversations, uuidCount, admitted, indexed, count_raised, returned, log>>

\* Code in the server process seeds the store before any request is accepted:
\* it calls index_documents(documents, metadatas) on the engine (the route
\* passes no metadatas); the call waits for the loop as a request does.
ArriveCall(s) ==
    /\ started
    /\ rag_chatbot # "None"
    /\ admitted = 0
    /\ \E i \in DOMAIN SlotOrder :
          /\ SlotOrder[i] = s
          /\ IsFree(s)
          /\ \A j \in 1..(i - 1) : ~IsFree(SlotOrder[j])
    /\ admitted < MaxRequests
    /\ admitted' = admitted + 1
    /\ \E call \in DirectCalls :
          /\ Len(collection) + InFlightDocs + Len(call[1]) <= MaxDocs
          /\ SetFrame(s, [IdleFrame EXCEPT !.pc = "pending", !.kind = "index_call",
                                           !.documents = call[1],
                                           !.metadatas = call[2]])
    /\ UNCHANGED <<gpa, started, rag_chatbot, vector_store, collection, qa_chain,
                   conversations, uuidCount, running, indexed, count_raised, returned, log>>

\* RAGChatbot.index_documents, line 132: the call starts
IndexCall(s) ==
    /\ frames[s].pc = "pending"
    /\ frames[s].kind = "index_call"
    /\ LoopFree
    /\ rag_chatbot # "None"
    /\ running' = running \cup {s}
    /\ SetFrame(s, [frames[s] EXCEPT !.pc = "index_check"])
    /\ UNCHANGED <<gpa, started, rag_chatbot, vector_store, collection, qa_chain,
                   conversations, uuidCount, admitted, indexed, count_raised, returned, log>>

\* the direct call returns None to its caller (lines 141, 157)
IndexCallReturn(s) ==
    /\ At(s, "index_return")
    /\ frames[s].kind = "index_call"
    /\ running' = running \ {s}
    /\ indexed' = (indexed \/ Len(frames[s].documents) >= 1)
    /\ SetFrame(s, Respond(frames[s], 0))
    /\ UNCHANGED <<gpa, started, rag_chatbot, vector_store, collection, qa_chain,
                   conversations, uuidCount, admitted, count_raised, returned, log>>

\* the direct call raises to its caller: the ValueError of line 144, or what
\* add_documents or persist raised (lines 153-154)
IndexCallRaise(s) ==
    /\ \/ At(s, "index_value_error")
       \/ At(s, "index_error")
    /\ frames[s].kind = "index_call"
    /\ running' = running \ {s}
    /\ SetFrame(s, [Respond(frames[s], 0) EXCEPT !.raised = TRUE])
    /\ UNCHANGED <<gpa, started, rag_chatbot, vector_store, collection, qa_chain,
                   conversations, uuidCount, admitted, indexed, count_raised, returned, log>>

----------------------------------------------------------------------------
(* GET /api/health, and RAGChatbot.get_conversation_history *)

HealthCheck(s) ==
    /\ frames[s].pc = "pending"
    /\ frames[s].kind = "health"
    /\ LoopFree
    /\ SetFrame(s, [Respond(frames[s], 200) EXCEPT !.available = rag_chatbot # "None"])
    /\ UNCHANGED <<gpa, started, rag_chatbot, vector_store, collection, qa_chain,
                   conversations, uuidCount, running, admitted, indexed, count_raised, returned, log>>

\* GetConversationHistory with a fault: setdefault, which creates the entry
GetConversationHistorySetDefault(s) ==
    /\ frames[s].pc = "pending"
    /\ frames[s].kind = "history"
    /\ LoopFree
    /\ rag_chatbot # "None"
    /\ conversations' = IF frames[s].conversation_id \in DOMAIN conversations
                        THEN conversations
                        ELSE Put(conversations, frames[s].conversation_id, <<>>)
    /\ SetFrame(s, [Respond(frames[s], 200) EXCEPT
            !.turns = Get(conversations, frames[s].conversation_id)])
    /\ UNCHANGED <<gpa, started, rag_chatbot, vector_store, collection, qa_chain,
                   uuidCount, running, admitted, indexed, count_raised, returned, log>>

\* get_conversation_history, lines 216-218: self.conversations.get(id, [])
GetConversationHistory(s) ==
    /\ frames[s].pc = "pending"
    /\ frames[s].kind = "history"
    /\ LoopFree
    /\ rag_chatbot # "None"
    /\ SetFrame(s, [Respond(frames[s], 200) EXCEPT
            !.turns = Get(conversations, frames[s].conversation_id)])
    /\ UNCHANGED <<gpa, started, rag_chatbot, vector_store, collection, qa_chain,
                   conversations, uuidCount, running, admitted, indexed, count_raised, returned, log>>

----------------------------------------------------------------------------

Next ==
    \/ StartupFails
    \/ StartupOk
    \/ \E s \in Slots :
          \/ Arrive(s)
          \/ ChatEndpoint(s)
          \/ ChatResolve(s)
          \/ ChatCheck(s)
          \/ ChatCreate(s)
          \/ ChatAppendUser(s)
          \/ ChatSelect(s)
          \/ ChatDirect(s)
          \/ ChatChain(s)
          \/ ChatSources(s)
          \/ ChatFallback(s)
          \/ ChatAppendAssistant(s)
          \/ ChatReturn(s)
          \/ ChatRaise(s)
          \/ IndexEndpoint(s)
          \/ IndexCheck(s)
          \/ IndexAdd(s)
          \/ IndexPersist(s)
          \/ IndexUpdateChain(s)
          \/ IndexReturn(s)
          \/ IndexValueError(s)
          \/ IndexError(s)
          \/ HealthCheck(s)
          \/ GetConversationHistory(s)

Spec == Init /\ [][Next]_vars

\* One step of the chat call that the loop is executing on connection s
ChatCall(s) ==
    \/ ChatResolve(s)
    \/ ChatCheck(s)
    \/ ChatCreate(s)
    \/ ChatAppendUser(s)
    \/ ChatSelect(s)
    \/ ChatDirect(s)
    \/ ChatChain(s)
    \/ ChatSources(s)
    \/ ChatFallback(s)
    \/ ChatAppendAssistant(s)
    \/ ChatReturn(s)
    \/ ChatRaise(s)

\* The service with at most LiveRequests requests accepted
NextLive ==
    \/ StartupFails
    \/ StartupOk
    \/ \E s \in Slots :
          \/ admitted < LiveRequests /\ Arrive(s)
          \/ ChatEndpoint(s)
          \/ ChatCall(s)
          \/ IndexEndpoint(s)
          \/ IndexCheck(s)
          \/ IndexAdd(s)
          \/ IndexPersist(s)
          \/ IndexUpdateChain(s)
          \/ IndexReturn(s)
          \/ IndexValueError(s)
          \/ IndexError(s)
          \/ HealthCheck(s)
          \/ GetConversationHistory(s)

\* The service when every external call returns or raises: a chat call that
\* the loop executes goes on to its next line.  chat is synchronous code on
\* the loop's thread, so nothing else can keep it from running.
SpecLive == Init /\ [][NextLive]_vars /\ \A s \in Slots : WF_vars(ChatCall(s))

\* The service seeded at startup: the direct call of index_documents comes
\* first, and requests are accepted once it has been made.
NextEngine ==
    \/ StartupFails
    \/ StartupOk
    \/ \E s \in Slots :
          \/ ArriveCall(s)
          \/ admitted >= 1 /\ Arrive(s)
          \/ IndexCall(s)
          \/ IndexCallReturn(s)
          \/ IndexCallRaise(s)
          \/ ChatEndpoint(s)
          \/ ChatResolve(s)
          \/ ChatCheck(s)
          \/ ChatCreate(s)
          \/ ChatAppendUser(s)
          \/ ChatSelect(s)
          \/ ChatDirect(s)
          \/ ChatChain(s)
          \/ ChatSources(s)
          \/ ChatFallback(s)
          \/ ChatAppendAssistant(s)
          \/ ChatReturn(s)
          \/ ChatRaise(s)
          \/ IndexEndpoint(s)
          \/ IndexCheck(s)
          \/ IndexAdd(s)
          \/ IndexPersist(s)
          \/ IndexUpdateChain(s)
          \/ IndexReturn(s)
          \/ IndexValueError(s)
          \/ IndexError(s)
          \/ HealthCheck(s)
          \/ GetConversationHistory(s)

SpecEngine == Init /\ [][NextEngine]_vars

----------------------------------------------------------------------------
(* POST /api/gpa/calculate: calculate_gpa_endpoint and calculate_gpa *)

service_vars == <<started, rag_chatbot, vector_store, collection, qa_chain, conversations,
                  uuidCount, running, frames, admitted, indexed, count_raised, returned, log>>

\* One GPA call is made, through the route ("api") or on calculate_gpa itself
\* ("engine") with a list of GPACourse objects.
InitGpa ==
    /\ started = FALSE
    /\ rag_chatbot = "None"
    /\ vector_store = "None"
    /\ collection = <<>>
    /\ qa_chain = "None"
    /\ conversations = <<>>
    /\ uuidCount = 0
    /\ running = {}
    /\ frames = [s \in Slots |-> IdleFrame]
    /\ admitted = 0
    /\ indexed = FALSE
    /\ count_raised = FALSE
    /\ returned = {}
    /\ log = <<>>
    /\ \E level \in {"api", "engine"}, cs \in CourseLists :
          gpa = [IdleGpa EXCEPT !.pc = IF level = "api" THEN "request" ELSE "calculate",
                                !.level = level, !.request = cs,
                                !.courses = IF level = "api" THEN <<>> ELSE cs]

\* main.py:40-46: FastAPI validates the body against GPARequest before the
\* handler runs; credits must be greater than 0, or the response is 422
GpaRequestValidation ==
    /\ gpa.pc = "request"
    /\ gpa' = IF \E i \in DOMAIN gpa.request : ~(gpa.request[i].credits > 0)
              THEN [gpa EXCEPT !.pc = "done", !.status = 422,
                               !.error = "RequestValidationError"]
              ELSE [gpa EXCEPT !.pc = "endpoint"]
    /\ UNCHANGED service_vars

\* calculate_gpa_endpoint, lines 65-67: the GPACourse list, grades upper-cased
CalculateGpaEndpoint ==
    /\ gpa.pc = "endpoint"
    /\ gpa' = [gpa EXCEPT !.pc = "calculate",
                          !.courses = [i \in DOMAIN gpa.request |->
                                          [credits |-> gpa.request[i].credits,
                                           grade |-> upper(gpa.request[i].grade)]]]
    /\ UNCHANGED service_vars

\* calculate_gpa, lines 63-67: no courses is a ValueError; the totals start at 0
CalculateGpa ==
    /\ gpa.pc = "calculate"
    /\ gpa' = IF gpa.courses = <<>>
              THEN [gpa EXCEPT !.pc = "value_error"]
              ELSE [gpa EXCEPT !.pc = "loop", !.i = 1,
                               !.total_points = 0, !.total_credits = 0]
    /\ UNCHANGED service_vars

\* calculate_gpa, lines 69-73: one pass of the loop
CalculateGpaLoop ==
    /\ gpa.pc = "loop"
    /\ LET course == gpa.courses[gpa.i]
           grade_points == get_grade_points(course.grade)
       IN  gpa' = IF grade_points.raised
                  THEN [gpa EXCEPT !.pc = "value_error"]
                  ELSE [gpa EXCEPT
                          !.total_points = @ + course.credits * grade_points.value,
                          !.total_credits = @ + course.credits,
                          !.i = @ + 1,
                          !.pc = IF gpa.i = Len(gpa.courses) THEN "totals" ELSE "loop"]
    /\ UNCHANGED service_vars

\* calculate_gpa, lines 75-84: zero credits is a ValueError, else the result
CalculateGpaTotals ==
    /\ gpa.pc = "totals"
    /\ gpa' = IF gpa.total_credits = 0
              THEN [gpa EXCEPT !.pc = "value_error"]
              ELSE [gpa EXCEPT !.pc = "return",
                               !.result = <<GpaResult(gpa.total_points, gpa.total_credits)>>]
    /\ UNCHANGED service_vars

\* calculate_gpa returns; through the route the response is 200 (lines 68-72)
GpaReturn ==
    /\ gpa.pc = "return"
    /\ gpa' = [gpa EXCEPT !.pc = "done",
                          !.status = IF gpa.level = "api" THEN 200 ELSE 0]
    /\ UNCHANGED service_vars

\* the ValueError reaches the caller; through the route it becomes 400
\* (lines 74-75)
GpaValueError ==
    /\ gpa.pc = "value_error"
    /\ gpa' = [gpa EXCEPT !.pc = "done", !.error = "ValueError",
                          !.status = IF gpa.level = "api" THEN 400 ELSE 0]
    /\ UNCHANGED service_vars

NextGpa ==
    \/ GpaRequestValidation
    \/ CalculateGpaEndpoint
    \/ CalculateGpa
    \/ CalculateGpaLoop
    \/ CalculateGpaTotals
    \/ GpaReturn
    \/ GpaValueError

SpecGpa == InitGpa /\ [][NextGpa]_vars

----------------------------------------------------------------------------
(* Properties *)

IsChat(s) == frames[s].kind = "chat"
Done(s) == frames[s].pc = "done"

\* the call has resolved its identifier and is still executing
InCall(s) ==
    /\ IsChat(s)
    /\ frames[s].pc \in {"chat_check", "chat_create", "chat_append_user", "chat_select",
                         "chat_direct", "chat_chain", "chat_sources", "chat_fallback",
                         "chat_append_assistant", "chat_return", "chat_raise"}

\* C1: a chat call that selected GROUNDED mode and whose retrieval or
\* generation raised goes on to the direct call of the LLM; when that call
\* returns, the request ends with status 200, the answer is the completion of
\* the original message and sources is the empty sequence; the request fails
\* (500) only when the direct call raised too.
ThmC1_GroundedFailureFallsBackToDirect ==
    \A s \in Slots :
        (IsChat(s) /\ frames[s].mode = "GROUNDED" /\ frames[s].raised) =>
            /\ frames[s].pc \in {"chat_fallback", "chat_append_assistant",
                                 "chat_return", "chat_raise", "done"}
            /\ frames[s].pc \in {"chat_append_assistant", "chat_return"} =>
                  /\ frames[s].fellback
                  /\ frames[s].answer = Completion(frames[s].message)
                  /\ frames[s].sources = <<>>
            /\ frames[s].pc = "chat_raise" => frames[s].llm_raised
            /\ Done(s) =>
                  IF frames[s].llm_raised
                  THEN frames[s].status = 500
                  ELSE /\ frames[s].status = 200
                       /\ frames[s].fellback
                       /\ frames[s].answer = Completion(frames[s].message)
                       /\ frames[s].sources = <<>>

WitC1_FallbackAnswered ==
    \E s \in Slots :
        /\ IsChat(s) /\ Done(s)
        /\ frames[s].mode = "GROUNDED" /\ frames[s].raised /\ ~frames[s].llm_raised
        /\ frames[s].status = 200
        /\ frames[s].sources = <<>>

\* C2: at every chat call made while no readiness check has raised, the mode
\* chosen is GROUNDED exactly when the store is available and holds at least
\* one document at that moment.
CexC2_ModeReflectsStoreAtCallTime ==
    \A s \in Slots :
        (IsChat(s) /\ frames[s].mode # "none" /\ ~count_raised) =>
            ((frames[s].mode = "GROUNDED") <=> frames[s].ready)

\* C3: while the store is unavailable or holds no document, every chat call
\* runs in DIRECT mode, never enters the grounded pipeline or its fallback, and
\* every answer it produces comes with sources equal to the empty sequence.
ThmC3_NoDocumentsMeansDirect ==
    (vector_store = "None" \/ Len(collection) = 0) =>
        \A s \in Slots :
            IsChat(s) =>
                /\ frames[s].mode \in {"none", "DIRECT"}
                /\ ~frames[s].fellback
                /\ frames[s].pc \notin {"chat_chain", "chat_sources", "chat_fallback"}
                /\ frames[s].sources = <<>>
                /\ (Done(s) /\ frames[s].status = 200) =>
                      /\ frames[s].mode = "DIRECT"
                      /\ frames[s].answer = Completion(frames[s].message)

WitC3_DirectAnswerOnEmptyStore ==
    \E s \in Slots :
        /\ vector_store = "Chroma" /\ Len(collection) = 0
        /\ IsChat(s) /\ Done(s) /\ frames[s].status = 200
        /\ frames[s].mode = "DIRECT"
        /\ frames[s].sources = <<>>

\* C4: a chat call that starts after an index call with at least one document
\* has returned successfully, and in which nothing raises, runs in GROUNDED
\* mode and returns a non-empty sources sequence, each entry beginning with the
\* first 200 characters of a document held in the store.
CexC4_GroundedAfterSuccessfulIndex ==
    \A s \in Slots :
        (IsChat(s) /\ Done(s) /\ frames[s].after_index
            /\ ~frames[s].raised /\ ~frames[s].llm_raised) =>
            /\ frames[s].status = 200
            /\ frames[s].mode = "GROUNDED"
            /\ frames[s].sources # <<>>
            /\ \A i \in DOMAIN frames[s].sources :
                  \E j \in DOMAIN collection :
                      StartsWith(frames[s].sources[i],
                                 Take(collection[j].page_content, PreviewLen))

\* the turns that the calls of a log leave, in order: a user turn per call and,
\* for a call that returned, the assistant turn with its answer
RECURSIVE TurnsOf(_)
TurnsOf(calls) ==
    IF calls = <<>> THEN <<>>
    ELSE <<Turn("user", Head(calls).message)>>
            \o (IF Head(calls).ok THEN <<Turn("assistant", Head(calls).answer)>> ELSE <<>>)
            \o TurnsOf(Tail(calls))

\* no chat call is executing on the identifier
Quiet(id) == \A s \in Slots : ~(InCall(s) /\ frames[s].cid = id)

AllOk(calls) == \A i \in DOMAIN calls : calls[i].ok
AllSequential(calls) == \A i \in DOMAIN calls : ~calls[i].overlapped
SomeOverlapped(calls) == \E i \in DOMAIN calls : calls[i].overlapped

\* C5: once n chat calls have run one after the other on an identifier and
\* all of them returned, the history of the identifier has exactly 2n turns,
\* roles alternating user, assistant; turn 2k-1 holds the k-th call's message
\* and turn 2k the answer the k-th call returned.
ThmC5_SequentialCallsAlternate ==
    \A id \in DOMAIN log :
        (Quiet(id) /\ AllOk(log[id]) /\ AllSequential(log[id])) =>
            LET h == Get(conversations, id)
                n == Len(log[id])
            IN  /\ Len(h) = 2 * n
                /\ \A k \in 1..n :
                      /\ h[2 * k - 1] = Turn("user", log[id][k].message)
                      /\ h[2 * k] = Turn("assistant", log[id][k].answer)

WitC5_TwoCallsFourTurns ==
    \E id \in DOMAIN log :
        /\ Quiet(id) /\ AllOk(log[id]) /\ AllSequential(log[id])
        /\ Len(log[id]) = 2
        /\ log[id][1].message # log[id][2].message
        /\ Len(conversations[id]) = 4

\* C6: in every step, every conversation that exists still exists afterwards
\* and its turn sequence before the step is a prefix of its turn sequence
\* after it.
ThmC6_TurnsAppendOnly ==
    [][\A id \in DOMAIN conversations :
          /\ id \in DOMAIN conversations'
          /\ Len(conversations'[id]) >= Len(conversations[id])
          /\ SubSeq(conversations'[id], 1, Len(conversations[id])) = conversations[id]]_vars

WitC6_GrownAcrossFailure ==
    \E id \in DOMAIN log :
        /\ Len(log[id]) = 2
        /\ ~log[id][1].ok
        /\ log[id][2].ok
        /\ Len(conversations[id]) = 3

\* C7: when chat calls on one identifier were in flight together and all of
\* them have finished, the conversation holds, call after call, the user turn
\* of each call followed by its assistant turn when the call returned: no
\* turn is missing and none was overwritten.
ThmC7_ConcurrentCallsKeepEveryTurn ==
    \A id \in DOMAIN log :
        (Quiet(id) /\ SomeOverlapped(log[id])) =>
            /\ id \in DOMAIN conversations
            /\ conversations[id] = TurnsOf(log[id])
            /\ AllOk(log[id]) => Len(conversations[id]) = 2 * Len(log[id])

WitC7_TwoRacingCallsOnNewIdentifier ==
    /\ "c1" \in DOMAIN log
    /\ Quiet("c1")
    /\ Len(log["c1"]) = 2
    /\ \A i \in 1..2 : log["c1"][i].ok /\ log["c1"][i].overlapped
    /\ Len(conversations["c1"]) = 4

\* C8: a chat call made without an identifier works under a token that was no
\* key of the conversation map when the call started and that no earlier call
\* returned; every conversation that existed keeps its turns, and the call's
\* own turns are the only turns under the new token.
ThmC8_AbsentIdentifierGetsFreshToken ==
    \A s \in Slots :
        (InCall(s) /\ frames[s].conversation_id \in {None, ""}) =>
            /\ frames[s].cid \notin {None, ""}
            /\ frames[s].cid \notin DOMAIN frames[s].pre
            /\ frames[s].cid \notin frames[s].pre_returned
            /\ \A k \in DOMAIN frames[s].pre :
                  k \in DOMAIN conversations /\ conversations[k] = frames[s].pre[k]
            /\ frames[s].pc = "chat_return" =>
                  conversations[frames[s].cid] =
                      <<Turn("user", frames[s].message),
                        Turn("assistant", frames[s].answer)>>

WitC8_SecondTokenDiffers ==
    \E s \in Slots :
        /\ IsChat(s) /\ frames[s].pc = "chat_return"
        /\ frames[s].conversation_id = None
        /\ frames[s].pre_returned # {}
        /\ DOMAIN frames[s].pre # {}

\* C9: a chat call whose direct call of the LLM raised, in DIRECT mode or in
\* the fallback, appends no assistant turn, and ends with status 500 and no
\* answer, identifier or sources in the response.
ThmC9_DirectFailureIsSurfaced ==
    \A s \in Slots :
        (IsChat(s) /\ frames[s].llm_raised) =>
            /\ frames[s].pc \in {"chat_raise", "done"}
            /\ frames[s].pc = "chat_raise" =>
                  conversations[frames[s].cid][Len(conversations[frames[s].cid])]
                      = Turn("user", frames[s].message)
            /\ Done(s) =>
                  /\ frames[s].status = 500
                  /\ frames[s].answer = Absent
                  /\ frames[s].cid = None
                  /\ frames[s].sources = <<>>

WitC9_FallbackFailureIs500 ==
    \E s \in Slots :
        /\ IsChat(s) /\ Done(s) /\ frames[s].llm_raised
        /\ frames[s].mode = "GROUNDED" /\ frames[s].fellback
        /\ frames[s].status = 500

\* C10: after a failed engine construction the engine stays absent; no
\* handler ever enters an engine operation, every chat and index request is
\* answered 503, the health endpoint reports the chatbot unavailable, and no
\* step makes the engine available.
EngineAbsent == started /\ rag_chatbot = "None"

ThmC10_FailedStartupMeans503 ==
    /\ [](EngineAbsent =>
            /\ running = {}
            /\ conversations = <<>> /\ collection = <<>> /\ qa_chain = "None"
            /\ uuidCount = 0
            /\ \A s \in Slots :
                  /\ frames[s].pc \in {"idle", "pending", "done"}
                  /\ (Done(s) /\ frames[s].kind \in {"chat", "index"}) =>
                        frames[s].status = 503
                  /\ (Done(s) /\ frames[s].kind = "health") =>
                        frames[s].status = 200 /\ ~frames[s].available)
    /\ [][EngineAbsent => EngineAbsent']_vars

WitC10_BothRefused ==
    \E s, t \in Slots :
        /\ EngineAbsent
        /\ Done(s) /\ frames[s].kind = "chat" /\ frames[s].status = 503
        /\ Done(t) /\ frames[t].kind = "index" /\ frames[t].status = 503
        /\ Len(frames[t].documents) >= 1

\* the step in which the history call of connection s is made and returns
HistoryStep(s) ==
    /\ frames[s].pc = "pending"
    /\ frames[s].kind = "history"
    /\ frames'[s].pc = "done"

\* C11: a history call returns (no error) the turns held under the identifier,
\* the empty sequence when the identifier is no key of the conversation map,
\* and it changes nothing: it creates no entry for the identifier and leaves
\* the conversation map, the document store and the cached chain as they were.
ThmC11_HistoryIsReadOnly ==
    [][\A s \in Slots :
          HistoryStep(s) =>
              /\ frames'[s].status = 200
              /\ frames'[s].turns = Get(conversations, frames[s].conversation_id)
              /\ frames[s].conversation_id \notin DOMAIN conversations =>
                    /\ frames'[s].turns = <<>>
                    /\ frames[s].conversation_id \notin DOMAIN conversations'
              /\ conversations' = conversations
              /\ collection' = collection
              /\ qa_chain' = qa_chain
              /\ vector_store' = vector_store]_vars

WitC11_UnknownIdentifierEmptyHistory ==
    \E s \in Slots :
        /\ Done(s) /\ frames[s].kind = "history"
        /\ frames[s].status = 200
        /\ frames[s].conversation_id = "c1"
        /\ "c1" \notin DOMAIN conversations
        /\ DOMAIN conversations # {}
        /\ frames[s].turns = <<>>

IsIndex(s) == frames[s].kind = "index"

\* an index handler is executing
IndexRunning(s) == IsIndex(s) /\ s \in running

StoreMissing == rag_chatbot # "None" /\ vector_store = "None"

\* C12: with the engine built but no Document Store, every index call with at
\* least one document raises the ValueError of line 144 and is answered 503,
\* without reaching the store; the store stays empty, the cached chain stays
\* None, no step of an index handler changes a conversation, and every chat
\* call runs in DIRECT mode and is answered 200 unless the LLM raises.
ThmC12_IndexWithoutStoreIs503 ==
    /\ [](StoreMissing =>
            /\ collection = <<>>
            /\ qa_chain = "None"
            /\ \A s \in Slots :
                  /\ (IsIndex(s) /\ Len(frames[s].documents) >= 1) =>
                        /\ frames[s].pc \in {"pending", "index_check",
                                             "index_value_error", "done"}
                        /\ Done(s) => frames[s].status = 503
                  /\ IsChat(s) =>
                        /\ frames[s].mode \in {"none", "DIRECT"}
                        /\ (Done(s) /\ ~frames[s].llm_raised) => frames[s].status = 200)
    /\ [][(\E s \in Slots : IndexRunning(s)) =>
            /\ conversations' = conversations
            /\ vector_store' = vector_store]_vars

WitC12_IndexRefusedChatAnswers ==
    \E s, t \in Slots :
        /\ StoreMissing
        /\ IsIndex(s) /\ Done(s) /\ Len(frames[s].documents) >= 1
        /\ frames[s].status = 503
        /\ IsChat(t) /\ Done(t) /\ frames[t].status = 200
        /\ frames[t].mode = "DIRECT"

\* C13: with the engine built, an index call with no document returns without
\* error (200) whether or not the Document Store is available, and no step of
\* its handler changes the store, the cached chain or a conversation.
ThmC13_EmptyIndexIsNoOp ==
    /\ [](\A s \in Slots :
            (IsIndex(s) /\ Len(frames[s].documents) = 0 /\ rag_chatbot # "None") =>
                /\ frames[s].pc \in {"pending", "index_check", "index_return", "done"}
                /\ Done(s) => frames[s].status = 200)
    /\ [][\A s \in Slots :
            (IndexRunning(s) /\ Len(frames[s].documents) = 0) =>
                /\ collection' = collection
                /\ qa_chain' = qa_chain
                /\ conversations' = conversations
                /\ indexed' = indexed]_vars

WitC13_EmptyIndexWithoutStore ==
    \E s \in Slots :
        /\ StoreMissing
        /\ IsIndex(s) /\ Done(s)
        /\ Len(frames[s].documents) = 0
        /\ frames[s].status = 200

\* the chat handler of connection s is waiting for an external service: the
\* LLM (lines 187, 203), or the retriever and the LLM (lines 193, 197)
BlockedOnService(s) ==
    /\ IsChat(s)
    /\ s \in running
    /\ frames[s].pc \in {"chat_direct", "chat_chain", "chat_sources", "chat_fallback"}

\* the request waiting on connection t can be started now
CanStart(t) ==
    ENABLED (ChatEndpoint(t) \/ IndexEndpoint(t) \/ HealthCheck(t)
                \/ GetConversationHistory(t))

\* C14: while a chat request waits for an external service, any other request
\* that has arrived (chat on another identifier, index, history, health) can
\* be started, and so can complete before the first one finishes.
CexC14_BlockedChatLetsOthersRun ==
    \A s, t \in Slots :
        (/\ BlockedOnService(s)
         /\ t # s
         /\ frames[t].pc = "pending"
         /\ IsChat(t) => frames[t].conversation_id # frames[s].cid) =>
            CanStart(t)

\* the chat call of connection s has built its result in GROUNDED mode
GroundedResult(s) ==
    /\ IsChat(s)
    /\ frames[s].pc \in {"chat_append_assistant", "chat_return"}
    /\ frames[s].mode = "GROUNDED"
    /\ ~frames[s].fellback

\* the preview of a text as the claim describes it: the first 200 characters,
\* with the marker only when something was cut off
MarkedWhenCut(text) ==
    IF TextLen(text) > PreviewLen
    THEN Concat(Take(text, PreviewLen), Str(".", 3))
    ELSE text

\* C16: in GROUNDED mode each entry of sources is the retrieved document's
\* text cut to 200 characters, the marker being appended exactly when the text
\* is longer than 200 characters; a shorter text appears as stored.
CexC16_MarkerOnlyWhenTruncated ==
    \A s \in Slots :
        GroundedResult(s) =>
            LET docs == Retriever(frames[s].message)
            IN  /\ Len(frames[s].sources) = Len(docs)
                /\ \A i \in DOMAIN docs :
                      frames[s].sources[i] = MarkedWhenCut(docs[i].page_content)

GivenId(s) == frames[s].conversation_id \notin {None, ""}

\* C17: a chat call made with a non-empty identifier works under that
\* identifier: it creates the conversation, empty, when the identifier is new,
\* appends its two turns there, creates no other conversation and returns the
\* identifier unchanged; a token is drawn only by a call whose identifier is
\* absent or empty.
ThmC17_GivenIdentifierIsKept ==
    /\ [](\A s \in Slots :
            /\ (InCall(s) /\ GivenId(s)) =>
                  /\ frames[s].cid = frames[s].conversation_id
                  /\ DOMAIN conversations \subseteq
                        DOMAIN frames[s].pre \cup {frames[s].conversation_id}
                  /\ frames[s].pc = "chat_append_user" =>
                        conversations[frames[s].cid] = Get(frames[s].pre, frames[s].cid)
                  /\ frames[s].pc = "chat_return" =>
                        conversations[frames[s].cid] =
                            Get(frames[s].pre, frames[s].cid)
                               \o <<Turn("user", frames[s].message),
                                    Turn("assistant", frames[s].answer)>>
            /\ (IsChat(s) /\ Done(s) /\ GivenId(s) /\ frames[s].status = 200) =>
                  frames[s].cid = frames[s].conversation_id)
    /\ [][uuidCount' # uuidCount =>
            \E s \in Slots :
                /\ IsChat(s)
                /\ frames[s].pc = "chat_resolve"
                /\ ~GivenId(s)
                /\ frames'[s].cid = uuid4(uuidCount')]_vars

WitC17_NewIdentifierCreatedLazily ==
    \E s \in Slots :
        /\ IsChat(s) /\ frames[s].pc = "chat_return"
        /\ frames[s].conversation_id = "c1"
        /\ "c1" \notin DOMAIN frames[s].pre
        /\ Len(conversations["c1"]) = 2
        /\ uuidCount = 0

Touched ==
    {k \in DOMAIN conversations' :
        k \notin DOMAIN conversations \/ conversations'[k] # conversations[k]}

\* the prompt of a call that got its answer: the message itself in DIRECT mode
\* and after a fallback, else the template filled with the documents the
\* store returns for the message
PromptOf(s) ==
    IF frames[s].mode = "DIRECT" \/ frames[s].fellback
    THEN frames[s].message
    ELSE Prompt(FormatDocs(Retriever(frames[s].message)), frames[s].message)

\* C19: a step of a chat call on identifier A creates or changes the turn
\* sequence of A only, and every other identifier keeps its turns; the answer
\* of a call is the completion of a prompt that is a function of the message
\* and of the document store alone.
ThmC19_ConversationsAreIndependent ==
    /\ [][\A k \in Touched :
              \E s \in Slots : InCall(s) /\ frames[s].cid = k
                               /\ frames'[s] # frames[s]]_vars
    /\ [](\A s \in Slots :
              (IsChat(s) /\ frames[s].pc \in {"chat_append_assistant", "chat_return"}) =>
                  frames[s].answer = Completion(PromptOf(s)))

WitC19_OtherConversationUntouched ==
    \E s \in Slots :
        /\ IsChat(s) /\ frames[s].pc = "chat_return"
        /\ frames[s].conversation_id = "c1"
        /\ Len(conversations["c1"]) = 2
        /\ \E k \in DOMAIN frames[s].pre :
              /\ k # "c1"
              /\ Len(frames[s].pre[k]) >= 2
              /\ conversations[k] = frames[s].pre[k]

\* the step in which an index call writes its batch
Writes(s) == At(s, "index_add") /\ frames'[s].pc = "index_persist"

\* C20: once the engine is built, every step keeps the stored documents as
\* they are and in place; the store changes only in the writing step of an
\* index call, which appends one document for each of the n texts of the
\* call, in order, whether or not the text is stored already, document i with
\* metadatas[i] when the call gave one and with the empty mapping otherwise;
\* a chat call, a history call and an index call that fails add nothing.
ThmC20_StoreOnlyGrows ==
    [][started =>
        /\ Len(collection') >= Len(collection)
        /\ \A i \in DOMAIN collection : collection'[i] = collection[i]
        /\ \A s \in Slots :
              Writes(s) =>
                  LET docs == frames[s].documents
                      metas == frames[s].metadatas
                  IN  /\ Len(docs) >= 1
                      /\ Len(collection') = Len(collection) + Len(docs)
                      /\ \A i \in DOMAIN docs :
                            collection'[Len(collection) + i] =
                                [page_content |-> docs[i],
                                 metadata |-> IF i \in DOMAIN metas THEN metas[i] ELSE {}]
        /\ (\A s \in Slots : ~Writes(s)) => collection' = collection]_vars

WitC20_SameTextStoredTwice ==
    \E s, t \in Slots :
        /\ frames[s].kind = "index_call" /\ Done(s) /\ ~frames[s].raised
        /\ Len(frames[s].metadatas) < Len(frames[s].documents)
        /\ IsIndex(t) /\ Done(t) /\ frames[t].status = 200
        /\ \E i, j \in DOMAIN collection :
              /\ i + 1 < j
              /\ collection[i].metadata = MetaX
              /\ collection[i + 1].metadata = {}
              /\ collection[j].page_content = collection[i].page_content

\* the course list as sent holds a grade outside the scale, or is empty
OutsideScale(grade) == strip(upper(grade)) \notin DOMAIN GRADE_POINTS
Rejectable ==
    \/ gpa.request = <<>>
    \/ \E i \in DOMAIN gpa.request : OutsideScale(gpa.request[i].grade)
CreditsPositive == \A i \in DOMAIN gpa.request : gpa.request[i].credits > 0

\* C15 as stated: a finished GPA call on an empty list or on a list with a
\* grade outside the scale has no result and has failed with ValueError,
\* which through the route is status 400, whatever the credits.
CexC15_AlwaysStatus400 ==
    (gpa.pc = "done" /\ Rejectable) =>
        /\ gpa.result = <<>>
        /\ gpa.error = "ValueError"
        /\ gpa.level = "api" => gpa.status = 400

\* C15: a finished GPA call on an empty list or on a list with a grade
\* outside the scale has no result; on calculate_gpa itself it has raised
\* ValueError whatever the credits; through the route it has status 400 when
\* all credits are positive and status 422, from the validation of the
\* request, when some credits are not.
ThmC15_BadGradeOrEmptyListFails ==
    (gpa.pc = "done" /\ Rejectable) =>
        /\ gpa.result = <<>>
        /\ gpa.level = "engine" => gpa.error = "ValueError"
        /\ gpa.level = "api" =>
              IF CreditsPositive
              THEN gpa.status = 400 /\ gpa.error = "ValueError"
              ELSE gpa.status = 422 /\ gpa.error = "RequestValidationError"

WitC15_BadGradeAfterGoodCourse ==
    /\ gpa.pc = "done" /\ gpa.level = "api" /\ gpa.status = 400
    /\ Len(gpa.request) = 2
    /\ ~OutsideScale(gpa.request[1].grade)
    /\ gpa.request[2].grade = <<"Z">>
    /\ gpa.total_credits > 0

\* C22: when the chat calls on an identifier ran one after the other and none
\* is executing, the identifier is a key of the conversation map, also when
\* every call on it failed, and its turns are, call after call, the user turn
\* of the call followed by the assistant turn only when the call returned: a
\* failed call leaves its user turn, so a user turn may follow a user turn,
\* and every assistant turn comes right after the user turn of its own call.
ThmC22_FailedCallIsNotRolledBack ==
    \A id \in DOMAIN log :
        (Quiet(id) /\ AllSequential(log[id])) =>
            /\ id \in DOMAIN conversations
            /\ LET h == conversations[id]
                   calls == log[id]
               IN  /\ h = TurnsOf(calls)
                   /\ Len(h) >= Len(calls)
                   /\ \A i \in DOMAIN h :
                         h[i].role = "assistant" => (i > 1 /\ h[i - 1].role = "user")
                   /\ ~calls[Len(calls)].ok =>
                         h[Len(h)] = Turn("user", calls[Len(calls)].message)

WitC22_UserTurnFollowsUserTurn ==
    /\ "c1" \in DOMAIN log
    /\ Quiet("c1") /\ AllSequential(log["c1"])
    /\ Len(log["c1"]) = 2
    /\ ~log["c1"][1].ok /\ ~log["c1"][2].ok
    /\ Len(conversations["c1"]) = 2
    /\ conversations["c1"][1].role = "user" /\ conversations["c1"][2].role = "user"
    /\ conversations["c1"][1].content # conversations["c1"][2].content

\* how far a chat call has come; the lines of chat in the order they execute
Progress(pc) ==
    CASE pc = "chat_resolve" -> 1
      [] pc = "chat_check" -> 2
      [] pc = "chat_create" -> 3
      [] pc = "chat_append_user" -> 4
      [] pc = "chat_select" -> 5
      [] pc \in {"chat_direct", "chat_chain"} -> 6
      [] pc = "chat_sources" -> 7
      [] pc = "chat_fallback" -> 8
      [] pc = "chat_append_assistant" -> 9
      [] pc \in {"chat_return", "chat_raise"} -> 10
      [] OTHER -> 11

\* the chat call on connection s takes a step
ChatCallSteps(s) == IsChat(s) /\ s \in running /\ frames'[s] # frames[s]

\* C21: with every external call returning or raising, a chat call that has
\* started ends with a result (200) or a request failure (500).  Each of its
\* steps takes it further down the lines of chat, so no line runs twice: the
\* LLM is invoked at most once by the direct call or the chain and at most
\* once by the fallback, and the conversation of the call grows by one user
\* turn at line 182, by one assistant turn at line 208 and at no other line.
ThmC21_ChatCallTerminates ==
    /\ \A s \in Slots :
          (IsChat(s) /\ s \in running) ~>
              (IsChat(s) /\ Done(s) /\ frames[s].status \in {200, 500})
    /\ [][\A s \in Slots :
              ChatCallSteps(s) =>
                  LET pc == frames[s].pc
                      id == frames'[s].cid
                      before == Get(conversations, IF pc = "chat_resolve"
                                                   THEN frames[s].conversation_id
                                                   ELSE frames[s].cid)
                      after == Get(conversations', frames[s].cid)
                  IN  /\ Progress(frames'[s].pc) > Progress(pc)
                      /\ pc = "chat_append_user" =>
                            after = Append(before, Turn("user", frames[s].message))
                      /\ pc = "chat_append_assistant" =>
                            after = Append(before, Turn("assistant", frames[s].answer))
                      /\ pc \notin {"chat_resolve", "chat_append_user",
                                    "chat_append_assistant"} =>
                            after = before]_vars

WitC21_TwoInvocationsOneAnswer ==
    \E s \in Slots :
        /\ IsChat(s) /\ frames[s].pc = "chat_return"
        /\ frames[s].fellback
        /\ frames[s].context # <<>>
        /\ frames[s].answer = Completion(frames[s].message)
        /\ frames[s].pre = <<>>
        /\ conversations[frames[s].cid] =
              <<Turn("user", frames[s].message), Turn("assistant", frames[s].answer)>>

====
